---- MODULE Spec2Model ----
(***************************************************************************)
(* A model of the CT lung / vessel segmentation pipeline of                *)
(* utils.py, segment_lungs.py and segment_vessels.py.                      *)
(*                                                                         *)
(* A numpy array is a function from its index set (row, col) to a value;   *)
(* its shape is the pair (rows, cols).  A contour is a record              *)
(*   pts  : the point sequence, coordinates in 1/Scale of a pixel          *)
(*   hull : what scipy's ConvexHull(contour).volume returns for it         *)
(*   fill : the pixels (x, y) PIL's ImageDraw.polygon leaves at 1 for it   *)
(* hull and fill are results of library calls and are carried as data.     *)
(***************************************************************************)
EXTENDS Integers, Sequences, FiniteSets, TLC

VARIABLES
    pc,               \* position of the run
    ct_numpy,         \* the slice's intensities
    lower_bound,      \* clip band
    upper_bound,
    binarized_image,  \* result of clip_and_binarize_ct
    contours,         \* contours handed to the selector / rasteriser
    min_volume,
    lungs_contour,    \* result of find_lung_contours
    lung_mask,        \* the caller's lung mask array
    vessels_only,     \* the caller's vessel mask array
    pixdim,           \* (sx, sy) of the loaded image
    lung_area,
    vessel_area,
    ratio,
    nifti_file,       \* the data handed to nib.save by the last save
    paths,            \* sorted(glob.glob(input_path)): the slices of the batch
    idx,              \* index of the slice the batch loop is at
    rows,             \* vessel_data / lung_areas
    csv_file,         \* the rows written by writer.writerows
    analyzer,         \* "lung" or "vessel": which batch driver runs
    vessels_coords,   \* np.nonzero(vessels) taken on entry to denoise_vessels
    k,                \* number of contours the running loop has consumed
    near,             \* history: indices within the threshold distance of a
                      \* point of a contour consumed so far
    orig              \* history: the operation's input array as it was on entry

vars == <<pc, ct_numpy, lower_bound, upper_bound, binarized_image, contours,
          min_volume, lungs_contour, lung_mask, vessels_only, pixdim,
          lung_area, vessel_area, ratio, nifti_file, paths, idx, rows,
          csv_file, analyzer, vessels_coords, k, near, orig>>

(***************************************************************************)
(* Bounds of the model.                                                    *)
(***************************************************************************)
MaxPixels == 4        \* an array has at most this many elements
MaxContours == 4      \* length of a contour list handed to the selector
MaxMerge == 2         \* length of a contour list handed to the rasteriser
MaxDenoise == 2       \* contours handed to denoise_vessels
MaxSlices == 2        \* slices in a batch
MaxSpacing == 3       \* pixel spacings range over 1..MaxSpacing
Scale == 20           \* contour coordinates are multiples of 1/Scale pixel

Shapes == {s \in (1..MaxPixels) \X (1..MaxPixels) : s[1] * s[2] <= MaxPixels}
Index(shape) == (0..(shape[1] - 1)) \X (0..(shape[2] - 1))
Arrays(values) == UNION {[Index(s) -> values] : s \in Shapes}
\* ndarray.shape
Shape(a) == CHOOSE s \in Shapes : DOMAIN a = Index(s)
EmptyArray == [p \in {} |-> 0]

RECURSIVE SumOver(_, _)
SumOver(a, dom) ==
    IF dom = {} THEN 0
    ELSE LET p == CHOOSE q \in dom : TRUE
         IN a[p] + SumOver(a, dom \ {p})
\* np.sum
Sum(a) == SumOver(a, DOMAIN a)

(***************************************************************************)
(* Lung.clip_and_binarize_ct                                               *)
(***************************************************************************)
Min(a, b) == IF a <= b THEN a ELSE b
Max(a, b) == IF a >= b THEN a ELSE b
\* np.clip(x, lo, hi) is minimum(maximum(x, lo), hi)
Clip(x, lo, hi) == Min(Max(x, lo), hi)
NpClip(a, lo, hi) == [p \in DOMAIN a |-> Clip(a[p], lo, hi)]

clip_and_binarize_at_lower(ct, lower, upper) ==
    LET clipped_image == NpClip(ct, lower, upper)
    IN [p \in DOMAIN clipped_image |->
            IF clipped_image[p] = lower THEN 1 ELSE 0]
clip_and_binarize_ct(ct, lower, upper) ==
    LET clipped_image == NpClip(ct, lower, upper)
    IN [p \in DOMAIN clipped_image |->
            IF clipped_image[p] = upper THEN 1 ELSE 0]

(***************************************************************************)
(* Lung.find_lung_contours                                                 *)
(***************************************************************************)
Last(s) == s[Len(s)]
Front(s) == SubSeq(s, 1, Len(s) - 1)

is_closed_contour(contour) == contour.pts[1] = Last(contour.pts)

\* ConvexHull(contour) raises QhullError for fewer than 3 points and for a
\* flat (collinear) point set; otherwise .volume is the hull's area.
QhullError(contour) == Len(contour.pts) < 3 \/ contour.hull = 0
ConvexHullVolume(contour) == contour.hull

\* list.sort(key=lambda x: x[1]) is stable: an element goes after every
\* element already placed whose key is <= its own.
RECURSIVE InsertByArea(_, _)
InsertByArea(sorted, c) ==
    IF sorted = <<>> THEN <<c>>
    ELSE IF ConvexHullVolume(Last(sorted)) <= ConvexHullVolume(c)
         THEN Append(sorted, c)
         ELSE Append(InsertByArea(Front(sorted), c), Last(sorted))
RECURSIVE SortByArea(_)
SortByArea(s) ==
    IF s = <<>> THEN <<>>
    ELSE InsertByArea(SortByArea(Front(s)), Last(s))

\* the comprehension of lines 150-154 evaluates ConvexHull for every
\* contour, so one degenerate contour makes the whole call raise
FindRaises(cs) == \E i \in 1..Len(cs) : QhullError(cs[i])

selected_contours(cs, minvol) ==
    LET Keep(c) == ConvexHullVolume(c) > minvol /\ is_closed_contour(c)
    IN SelectSeq(cs, Keep)

find_lung_contours_drop2(cs, minvol) ==
    LET sel == selected_contours(cs, minvol)
    IN IF Len(sel) > 1 THEN Front(SortByArea(sel)) ELSE sel
find_lung_contours_open(cs, minvol) ==
    LET Keep(c) == ConvexHullVolume(c) > minvol
        sel == SelectSeq(cs, Keep)
    IN IF Len(sel) > 2 THEN Front(SortByArea(sel)) ELSE sel
find_lung_contours(cs, minvol) ==
    LET sel == selected_contours(cs, minvol)
    IN IF Len(sel) > 2 THEN Front(SortByArea(sel)) ELSE sel

(***************************************************************************)
(* Lung.create_mask_from_polygon                                           *)
(***************************************************************************)
Uint8 == 256    \* np.uint8 arithmetic is modulo 2^8

Transpose(a) ==
    LET s == Shape(a)
    IN [p \in Index(<<s[2], s[1]>>) |-> a[<<p[2], p[1]>>]]

\* Image.new("L", image_shape, 0) has width image_shape[0] and height
\* image_shape[1]; np.array(mask) is indexed [y][x].
PolygonMaskArray(image_shape, contour) ==
    [q \in Index(<<image_shape[2], image_shape[1]>>) |->
        IF <<q[2], q[1]>> \in contour.fill THEN 1 ELSE 0]

\* one iteration of the loop of lines 73-79: lung_mask += transpose(mask)
\* on np.uint8
accumulate_contour(mask, contour, image_shape) ==
    LET mask_array == PolygonMaskArray(image_shape, contour)
        t == Transpose(mask_array)
    IN [p \in DOMAIN mask |-> (mask[p] + t[p]) % Uint8]

RECURSIVE Accumulate(_, _, _, _)
Accumulate(mask, cs, i, image_shape) ==
    IF i > Len(cs) THEN mask
    ELSE Accumulate(accumulate_contour(mask, cs[i], image_shape),
                    cs, i + 1, image_shape)

Zeros(image) == [p \in DOMAIN image |-> 0]

create_mask_from_polygon(image, cs) ==
    NpClip(Accumulate(Zeros(image), cs, 1, Shape(image)), 0, 1)

(***************************************************************************)
(* Lung.compute_lung_area, Lung.extract_pixel_dimensions                   *)
(***************************************************************************)
compute_lung_area_noclip(binary_mask, pixel_dimensions) ==
    Sum(binary_mask) * (pixel_dimensions[1] * pixel_dimensions[2])
compute_lung_area(binary_mask, pixel_dimensions) ==
    Sum(NpClip(binary_mask, 0, 1)) * (pixel_dimensions[1] * pixel_dimensions[2])

(***************************************************************************)
(* Vessel.denoise_vessels, Vessel.create_vessel_mask                       *)
(***************************************************************************)
\* threshold_distance = 0.1 as a fraction
threshold_num == 1
threshold_den == 10

Nonzero(a) == {p \in DOMAIN a : a[p] # 0}

\* squared distance, in (1/Scale pixel)^2, from a contour point to the
\* index (coord_x, coord_y)
Dist2(pt, p) ==
    (pt[1] - Scale * p[1]) * (pt[1] - Scale * p[1])
    + (pt[2] - Scale * p[2]) * (pt[2] - Scale * p[2])

\* np.any(distances <= threshold_distance)
AnyWithinStrict(contour, p) ==
    \E j \in 1..Len(contour.pts) :
        threshold_den * threshold_den * Dist2(contour.pts[j], p)
            < threshold_num * threshold_num * Scale * Scale
AnyWithin(contour, p) ==
    \E j \in 1..Len(contour.pts) :
        threshold_den * threshold_den * Dist2(contour.pts[j], p)
            <= threshold_num * threshold_num * Scale * Scale

\* one iteration of the loop over lung_contours (lines 243-250)
denoise_contour(contour, vessels, coords) ==
    [p \in DOMAIN vessels |->
        IF p \in coords /\ AnyWithin(contour, p) THEN 0 ELSE vessels[p]]

RECURSIVE DenoiseFrom(_, _, _, _)
DenoiseFrom(cs, i, vessels, coords) ==
    IF i > Len(cs) THEN vessels
    ELSE DenoiseFrom(cs, i + 1, denoise_contour(cs[i], vessels, coords), coords)

denoise_vessels(lung_contours, vessels) ==
    DenoiseFrom(lung_contours, 1, vessels, Nonzero(vessels))

create_vessel_mask(mask, lungs, ct, denoise) ==
    LET v0 == [p \in DOMAIN mask |-> mask[p] * ct[p]]
        v1 == [p \in DOMAIN v0 |-> IF v0[p] = 0 THEN -1000 ELSE v0[p]]
        v2 == [p \in DOMAIN v1 |-> IF v1[p] >= -500 THEN 1 ELSE v1[p]]
        v3 == [p \in DOMAIN v2 |-> IF v2[p] < -500 THEN 0 ELSE v2[p]]
    IN IF denoise THEN denoise_vessels(lungs, v3) ELSE v3

(***************************************************************************)
(* Nifty.save_nifty_binary_mask                                            *)
(***************************************************************************)
\* binary_mask[binary_mask == 1] = 255
Rescale(binary_mask) ==
    [p \in DOMAIN binary_mask |->
        IF binary_mask[p] = 1 THEN 255 ELSE binary_mask[p]]

(***************************************************************************)
(* The quotient of process_image.  Both areas are numpy floats, so a       *)
(* division by zero yields nan or inf (with a RuntimeWarning), not an      *)
(* exception.  A finite quotient is kept exact as num/den.                 *)
(***************************************************************************)
NoRatio == [kind |-> "unset", num |-> 0, den |-> 1]
VesselRatio(varea, larea) ==
    IF larea # 0 THEN [kind |-> "finite", num |-> varea * 100, den |-> larea]
    ELSE IF varea = 0 THEN [kind |-> "nan", num |-> 0, den |-> 0]
    ELSE [kind |-> "inf", num |-> varea, den |-> 0]

(***************************************************************************)
(* Variable groups and their values while an operation is not in play.     *)
(***************************************************************************)
thresholdVars == <<lower_bound, upper_bound, binarized_image>>
selectVars == <<contours, min_volume, lungs_contour>>
maskVars == <<lung_mask, vessels_only, nifti_file>>
areaVars == <<pixdim, lung_area, vessel_area, ratio>>
batchVars == <<paths, idx, rows, csv_file, analyzer>>
loopVars == <<vessels_coords, k, near>>

NotWritten == [written |-> FALSE, rows |-> <<>>]

NoThreshold ==
    lower_bound = 0 /\ upper_bound = 0 /\ binarized_image = EmptyArray
NoSelect == contours = <<>> /\ min_volume = 0 /\ lungs_contour = <<>>
NoMasks ==
    lung_mask = EmptyArray /\ vessels_only = EmptyArray
    /\ nifti_file = EmptyArray
NoAreas ==
    pixdim = <<1, 1>> /\ lung_area = 0 /\ vessel_area = 0 /\ ratio = NoRatio
NoBatch ==
    paths = <<>> /\ idx = 0 /\ rows = <<>> /\ csv_file = NotWritten
    /\ analyzer = "none"
NoLoop == vessels_coords = {} /\ k = 0 /\ near = {}

(***************************************************************************)
(* SpecThreshold: clip_and_binarize_ct on every small slice and band,      *)
(* then once more on its own output with the same band.                    *)
(***************************************************************************)
ThresholdIntensities == {-1020, -300, -200, 0, 1}
BandEdges == {-1000, -300, 0, 1}

InitThreshold ==
    /\ pc = "start"
    /\ ct_numpy \in Arrays(ThresholdIntensities)
    /\ lower_bound \in BandEdges
    /\ upper_bound \in BandEdges
    /\ lower_bound <= upper_bound
    /\ binarized_image = EmptyArray
    /\ orig = ct_numpy
    /\ NoSelect /\ NoMasks /\ NoAreas /\ NoBatch /\ NoLoop

ClipAndBinarize ==
    /\ pc = "start"
    /\ binarized_image' = clip_and_binarize_ct(ct_numpy, lower_bound, upper_bound)
    /\ pc' = "done"
    /\ UNCHANGED <<ct_numpy, lower_bound, upper_bound, selectVars, maskVars,
                   areaVars, batchVars, loopVars, orig>>

\* the output fed back in with identical bounds
ClipAgain ==
    /\ pc = "done"
    /\ ct_numpy' = binarized_image
    /\ binarized_image' =
           clip_and_binarize_ct(binarized_image, lower_bound, upper_bound)
    /\ pc' = "twice"
    /\ UNCHANGED <<lower_bound, upper_bound, selectVars, maskVars,
                   areaVars, batchVars, loopVars, orig>>

NextThreshold == ClipAndBinarize \/ ClipAgain
SpecThreshold == InitThreshold /\ [][NextThreshold]_vars

IsBinary(a) == \A p \in DOMAIN a : a[p] \in {0, 1}

\* C7 as stated: for every band with lower <= upper the output has the
\* input's shape, holds only 0 and 1, and is 1 exactly where the original
\* intensity is >= upper.
C7_AsStated ==
    pc = "done" =>
        /\ DOMAIN binarized_image = DOMAIN orig
        /\ IsBinary(binarized_image)
        /\ \A p \in DOMAIN orig :
               binarized_image[p] = 1 <=> orig[p] >= upper_bound

\* C7 amended: the same for every band with lower < upper; with
\* lower = upper every pixel is 1; and a {0,1} array under band [0,1] comes
\* back unchanged, also when the output is binarized a second time.
C7_ClipAndBinarize ==
    /\ pc = "done" =>
        /\ DOMAIN binarized_image = DOMAIN orig
        /\ IsBinary(binarized_image)
        /\ lower_bound < upper_bound =>
               \A p \in DOMAIN orig :
                   binarized_image[p] = 1 <=> orig[p] >= upper_bound
        /\ lower_bound = upper_bound =>
               \A p \in DOMAIN orig : binarized_image[p] = 1
    /\ (pc \in {"done", "twice"} /\ lower_bound = 0 /\ upper_bound = 1
            /\ IsBinary(orig)) => binarized_image = orig

\* a slice with intensities below, inside and above a proper band has been
\* binarized to a mix of 0 and 1
C7_Witness ==
    /\ pc = "done"
    /\ lower_bound < upper_bound
    /\ \E p, q, r \in DOMAIN orig :
           /\ orig[p] < lower_bound /\ binarized_image[p] = 0
           /\ orig[q] > upper_bound /\ binarized_image[q] = 1
           /\ orig[r] = upper_bound /\ binarized_image[r] = 1

(***************************************************************************)
(* SpecSelect: find_lung_contours on every list of up to MaxContours       *)
(* contours: closed, open or degenerate, with hull areas around the        *)
(* default min_volume of 2000.  A contour's id is its position in the      *)
(* list (contours are distinct objects even when their data agree).        *)
(***************************************************************************)
HullAreas == {1500, 2000, 3000, 50000}
MinVolumes == {1500, 2000}

ClosedPts == <<<<0, 0>>, <<Scale, 0>>, <<0, Scale>>, <<0, 0>>>>
OpenPts == <<<<0, 0>>, <<Scale, 0>>, <<0, Scale>>>>
\* the two-point open contour that cuts off a corner pixel
TwoPts == <<<<0, 1>>, <<1, 0>>>>

SelectorKinds ==
    {[pts |-> ps, hull |-> h, fill |-> {}] :
        ps \in {ClosedPts, OpenPts}, h \in HullAreas}
    \cup {[pts |-> TwoPts, hull |-> 0, fill |-> {}]}

WithId(kind, i) ==
    [id |-> i, pts |-> kind.pts, hull |-> kind.hull, fill |-> kind.fill]

InitSelect ==
    /\ pc = "start"
    /\ \E n \in 0..MaxContours :
           \E f \in [1..n -> SelectorKinds] :
               contours = [i \in 1..n |-> WithId(f[i], i)]
    /\ min_volume \in MinVolumes
    /\ lungs_contour = <<>>
    /\ ct_numpy = EmptyArray
    /\ orig = EmptyArray
    /\ NoThreshold /\ NoMasks /\ NoAreas /\ NoBatch /\ NoLoop

\* the call either raises QhullError or returns the selection
FindLungContours ==
    /\ pc = "start"
    /\ IF FindRaises(contours)
       THEN pc' = "raised" /\ UNCHANGED lungs_contour
       ELSE /\ lungs_contour' = find_lung_contours(contours, min_volume)
            /\ pc' = "done"
    /\ UNCHANGED <<ct_numpy, contours, min_volume, thresholdVars, maskVars,
                   areaVars, batchVars, loopVars, orig>>

NextSelect == FindLungContours
SpecSelect == InitSelect /\ [][NextSelect]_vars

Range(s) == {s[i] : i \in 1..Len(s)}

\* Q: the contours that are closed and whose hull area exceeds min_volume
Qualifying ==
    {c \in Range(contours) :
        c.pts[1] = c.pts[Len(c.pts)] /\ c.hull > min_volume}
DistinctAreas(S) == \A c, d \in S : c # d => c.hull # d.hull
LargestOf(S) == CHOOSE c \in S : \A d \in S : d.hull <= c.hull

\* C1: a returning call returns only members of Q, each at most once; all
\* of Q when |Q| <= 2; and, when |Q| > 2 and the hull areas in Q are
\* pairwise distinct, Q without exactly the contour of maximum hull area.
C1_FindLungContours ==
    pc = "done" =>
        LET R == Range(lungs_contour)
        IN /\ R \subseteq Qualifying
           /\ Cardinality(R) = Len(lungs_contour)
           /\ Cardinality(Qualifying) <= 2 => R = Qualifying
           /\ (Cardinality(Qualifying) > 2 /\ DistinctAreas(Qualifying)) =>
                  R = Qualifying \ {LargestOf(Qualifying)}

\* three qualifying contours of distinct areas among non-qualifying ones,
\* and the largest has been dropped
C1_Witness ==
    /\ pc = "done"
    /\ Cardinality(Qualifying) = 3
    /\ DistinctAreas(Qualifying)
    /\ Range(contours) # Qualifying
    /\ Len(lungs_contour) = 2
    /\ LargestOf(Qualifying) \notin Range(lungs_contour)

\* the input of scenario B: exactly two contours, both closed, with hull
\* areas 3000 and 50000, and min_volume = 2000
ScenarioB ==
    /\ min_volume = 2000
    /\ Len(contours) = 2
    /\ \A i \in 1..2 : contours[i].pts[1] = contours[i].pts[Len(contours[i].pts)]
    /\ {contours[i].hull : i \in 1..2} = {3000, 50000}

\* C8 as stated: on scenario B only the 3000-area contour is kept
C8_AsStated ==
    (pc = "done" /\ ScenarioB) =>
        {c.hull : c \in Range(lungs_contour)} = {3000}

\* C8 amended: on scenario B both contours are kept, the 50000-area one
\* included, in their input order
C8_KeepsBoth ==
    (pc = "done" /\ ScenarioB) => lungs_contour = contours

C8_Witness ==
    /\ pc = "done"
    /\ ScenarioB
    /\ Len(lungs_contour) = 2
    /\ \E c \in Range(lungs_contour) : c.hull = 50000

(***************************************************************************)
(* SpecMask: create_mask_from_polygon on every image shape, with every     *)
(* list of up to MaxMerge contours of any fill, and with stacks of one     *)
(* contour repeated about 2^8 times.                                       *)
(***************************************************************************)
\* an image of each shape; only its shape is read
BlankImages == Arrays({-1020})

MaskContour(F, i) == [id |-> i, pts |-> ClosedPts, hull |-> 3000, fill |-> F]

MergeLists(shape) ==
    UNION {{[i \in 1..n |-> MaskContour(f[i], i)] :
                f \in [1..n -> SUBSET Index(shape)]} : n \in 0..MaxMerge}
Stacks(shape) ==
    {[i \in 1..n |-> MaskContour(F, i)] :
        n \in (Uint8 - 1)..(Uint8 + 1), F \in SUBSET Index(shape)}

InitMask ==
    /\ pc = "start"
    /\ ct_numpy \in BlankImages
    /\ contours \in MergeLists(Shape(ct_numpy)) \cup Stacks(Shape(ct_numpy))
    /\ min_volume = 0 /\ lungs_contour = <<>>
    /\ orig = EmptyArray
    /\ NoThreshold /\ NoMasks /\ NoAreas /\ NoBatch /\ NoLoop

\* lines 70-71
MaskBegin ==
    /\ pc = "start"
    /\ lung_mask' = Zeros(ct_numpy)
    /\ k' = 0
    /\ pc' = "merge"
    /\ UNCHANGED <<ct_numpy, thresholdVars, selectVars, vessels_only,
                   nifti_file, areaVars, batchVars, vessels_coords, near, orig>>

\* lines 73-79, one contour
MaskAdd ==
    /\ pc = "merge"
    /\ k < Len(contours)
    /\ lung_mask' = accumulate_contour(lung_mask, contours[k + 1], Shape(ct_numpy))
    /\ k' = k + 1
    /\ UNCHANGED <<pc, ct_numpy, thresholdVars, selectVars, vessels_only,
                   nifti_file, areaVars, batchVars, vessels_coords, near, orig>>

\* lines 81-83
MaskClip ==
    /\ pc = "merge"
    /\ k = Len(contours)
    /\ lung_mask' = NpClip(lung_mask, 0, 1)
    /\ pc' = "done"
    /\ UNCHANGED <<ct_numpy, thresholdVars, selectVars, vessels_only,
                   nifti_file, areaVars, batchVars, loopVars, orig>>

NextMask == MaskBegin \/ MaskAdd \/ MaskClip
SpecMask == InitMask /\ [][NextMask]_vars

\* C5: for any number of contours the mask has the image's shape, holds
\* only 0 and 1, and is 1 exactly at the pixels some contour's polygon fills.
C5_AsStated ==
    pc = "done" =>
        /\ DOMAIN lung_mask = DOMAIN ct_numpy
        /\ IsBinary(lung_mask)
        /\ \A p \in DOMAIN lung_mask :
               lung_mask[p] = 1 <=>
                   \E i \in 1..Len(contours) : p \in contours[i].fill

(***************************************************************************)
(* SpecVessel: create_vessel_mask(denoise=False) on every {0,1} lung mask  *)
(* and every slice of the same shape.                                      *)
(***************************************************************************)
VesselIntensities == {-600, -500, 0, 40}

InitVessel ==
    /\ pc = "start"
    /\ lung_mask \in Arrays({0, 1})
    /\ ct_numpy \in [DOMAIN lung_mask -> VesselIntensities]
    /\ vessels_only = EmptyArray /\ nifti_file = EmptyArray
    /\ orig = EmptyArray
    /\ NoThreshold /\ NoSelect /\ NoAreas /\ NoBatch /\ NoLoop

CreateVesselMask ==
    /\ pc = "start"
    /\ vessels_only' = create_vessel_mask(lung_mask, lungs_contour, ct_numpy, FALSE)
    /\ pc' = "done"
    /\ UNCHANGED <<ct_numpy, thresholdVars, selectVars, lung_mask, nifti_file,
                   areaVars, batchVars, loopVars, orig>>

NextVessel == CreateVesselMask
SpecVessel == InitVessel /\ [][NextVessel]_vars

\* C2: the vessel mask holds only 0 and 1, is 0 outside the lung mask, and
\* inside the lung mask is 1 exactly where the intensity is >= -500, for
\* every intensity, 0 included.
C2_AsStated ==
    pc = "done" =>
        /\ IsBinary(vessels_only)
        /\ \A p \in DOMAIN lung_mask :
               vessels_only[p] = 1 <=>
                   (lung_mask[p] = 1 /\ ct_numpy[p] >= -500)

(***************************************************************************)
(* SpecDenoise: denoise_vessels on every {0,1} vessel mask; the contours   *)
(* of its list, up to MaxDenoise of them, are drawn as the loop consumes   *)
(* them, each of one or two points lying on, at 0.1 from and beyond 0.1    *)
(* from an index of the array.                                             *)
(***************************************************************************)
OffsetsX == {0, Scale \div threshold_den, Scale \div threshold_den + 1}
OffsetsY == {0, Scale \div threshold_den}

ContourPoints(shape) ==
    {<<Scale * p[1] + dx, Scale * p[2] + dy>> :
        p \in Index(shape), dx \in OffsetsX, dy \in OffsetsY}

\* is point a before point b in the lexicographic order
Before(a, b) == a[1] < b[1] \/ (a[1] = b[1] /\ a[2] < b[2])

DenoiseContours(shape) ==
    {[id |-> 0, pts |-> ps, hull |-> 3000, fill |-> {}] :
        ps \in {<<a>> : a \in ContourPoints(shape)}
               \cup {<<ab[1], ab[2]>> :
                        ab \in {cd \in ContourPoints(shape) \X ContourPoints(shape) :
                                    Before(cd[1], cd[2])}}}

\* history only, the claim's notion of nearness: the indices at real
\* distance <= 1/10 pixel of a point of contour
WithinTenth(contour, dom) ==
    {p \in dom :
        \E j \in 1..Len(contour.pts) :
            LET dx == 10 * (contour.pts[j][1] - Scale * p[1])
                dy == 10 * (contour.pts[j][2] - Scale * p[2])
            IN dx * dx + dy * dy <= Scale * Scale}

InitDenoise ==
    /\ pc = "start"
    /\ vessels_only \in Arrays({0, 1})
    /\ orig = vessels_only
    /\ ct_numpy = EmptyArray
    /\ lung_mask = EmptyArray /\ nifti_file = EmptyArray
    /\ NoThreshold /\ NoSelect /\ NoAreas /\ NoBatch /\ NoLoop

\* line 237
DenoiseBegin ==
    /\ pc = "start"
    /\ vessels_coords' = Nonzero(vessels_only)
    /\ pc' = "denoise"
    /\ UNCHANGED <<ct_numpy, thresholdVars, selectVars, maskVars, areaVars,
                   batchVars, k, near, orig>>

\* lines 242-250 for the next contour of lung_contours
DenoiseContour ==
    /\ pc = "denoise"
    /\ k < MaxDenoise
    /\ \E contour \in DenoiseContours(Shape(vessels_only)) :
           /\ vessels_only' =
                  denoise_contour(contour, vessels_only, vessels_coords)
           /\ near' = near \cup WithinTenth(contour, DOMAIN vessels_only)
    /\ k' = k + 1
    /\ UNCHANGED <<pc, ct_numpy, thresholdVars, selectVars, lung_mask,
                   nifti_file, areaVars, batchVars, vessels_coords, orig>>

\* line 251, once the list is exhausted
DenoiseReturn ==
    /\ pc = "denoise"
    /\ pc' = "done"
    /\ UNCHANGED <<ct_numpy, thresholdVars, selectVars, maskVars, areaVars,
                   batchVars, loopVars, orig>>

NextDenoise == DenoiseBegin \/ DenoiseContour \/ DenoiseReturn
SpecDenoise == InitDenoise /\ [][NextDenoise]_vars

MaskValues == {0, 1, 2, 255}

InitArea ==
    /\ pc = "start"
    /\ lung_mask \in Arrays(MaskValues)
    /\ orig = lung_mask
    /\ pixdim \in (1..MaxSpacing) \X (1..MaxSpacing)
    /\ lung_area = 0 /\ vessel_area = 0 /\ ratio = NoRatio
    /\ vessels_only = EmptyArray /\ nifti_file = EmptyArray
    /\ ct_numpy = EmptyArray
    /\ NoThreshold /\ NoSelect /\ NoBatch /\ NoLoop

\* segment_lungs.py line 31: the save rescales the array it is handed
AreaSave ==
    /\ pc = "start"
    /\ lung_mask' = Rescale(lung_mask)
    /\ nifti_file' = lung_mask'
    /\ pc' = "saved"
    /\ UNCHANGED <<ct_numpy, thresholdVars, selectVars, vessels_only,
                   areaVars, batchVars, loopVars, orig>>

\* segment_lungs.py line 33
AreaCompute ==
    /\ pc \in {"start", "saved"}
    /\ lung_area' = compute_lung_area(lung_mask, pixdim)
    /\ pc' = "done"
    /\ UNCHANGED <<ct_numpy, thresholdVars, selectVars, maskVars, pixdim,
                   vessel_area, ratio, batchVars, loopVars, orig>>

NextArea == AreaSave \/ AreaCompute
SpecArea == InitArea /\ [][NextArea]_vars

\* C9: the area is (number of nonzero pixels of the mask) x sx x sy, whether
\* or not the mask was rescaled to 255 by an earlier save.
C9_ComputeLungArea ==
    pc = "done" =>
        lung_area = Cardinality({p \in DOMAIN orig : orig[p] # 0})
                        * pixdim[1] * pixdim[2]

\* an all-ones mask of MaxPixels pixels, saved (so now all 255) and then
\* measured with unequal spacings
C9_Witness ==
    /\ pc = "done"
    /\ nifti_file # EmptyArray
    /\ Cardinality(DOMAIN orig) = MaxPixels
    /\ \A p \in DOMAIN orig : orig[p] = 1 /\ lung_mask[p] = 255
    /\ pixdim[1] # pixdim[2]
    /\ lung_area = MaxPixels * pixdim[1] * pixdim[2]

(***************************************************************************)
(* SpecBatch: LungVolumeAnalyzer.analyze_images and                        *)
(* VesselVolumeAnalyzer.analyze_images over a batch of up to MaxSlices     *)
(* slices, process_image taken one statement at a time.  A slice is a      *)
(* 2 x 2 image together with the contours skimage's find_contours returns  *)
(* for its binarization and its pixel spacings; its name is its position   *)
(* in the sorted path list.  The plotting calls change no data and have    *)
(* no step; pixdim is the pair extract_pixel_dimensions reads from the     *)
(* header.                                                                 *)
(***************************************************************************)
Image2x2(a, b, c, d) ==
    [p \in Index(<<2, 2>>) |->
        IF p = <<0, 0>> THEN a ELSE IF p = <<0, 1>> THEN b
        ELSE IF p = <<1, 0>> THEN c ELSE d]

\* a closed contour running at 1/Scale pixel from index (0,0)
RingPts == <<<<0, 1>>, <<1, 0>>, <<Scale, Scale>>, <<0, 1>>>>

\* nothing but air: a uniform binarization has no contours
SliceAir == [ct |-> Image2x2(-1020, -1020, -1020, -1020), found |-> <<>>]
\* dense tissue at (0,0) bounding a lung that holds a vessel at (1,0)
SliceLung ==
    [ct |-> Image2x2(40, -800, -400, 40),
     found |-> <<[id |-> 1, pts |-> RingPts, hull |-> 3000,
                  fill |-> {<<0, 0>>, <<0, 1>>, <<1, 0>>}]>>]
\* two lungs and the body outline
SliceBody ==
    [ct |-> Image2x2(40, -800, -400, 40),
     found |-> <<[id |-> 1, pts |-> ClosedPts, hull |-> 50000,
                  fill |-> Index(<<2, 2>>)],
                 [id |-> 2, pts |-> ClosedPts, hull |-> 3000,
                  fill |-> {<<0, 1>>}],
                 [id |-> 3, pts |-> ClosedPts, hull |-> 4000,
                  fill |-> {<<1, 0>>}]>>]
\* one dense pixel in the corner: marching squares cuts the corner with a
\* two-point open contour
SliceCorner ==
    [ct |-> Image2x2(40, -1020, -1020, -1020),
     found |-> <<[id |-> 1, pts |-> TwoPts, hull |-> 0, fill |-> {}]>>]
\* one closed contour too small to qualify
SliceSmall ==
    [ct |-> Image2x2(-1020, 40, -1020, -1020),
     found |-> <<[id |-> 1, pts |-> ClosedPts, hull |-> 1500,
                  fill |-> {<<0, 1>>}]>>]

SliceKinds == {SliceAir, SliceLung, SliceBody, SliceCorner, SliceSmall}
Slices ==
    {[ct |-> s.ct, found |-> s.found, pixdim |-> d] :
        s \in SliceKinds, d \in {<<1, 1>>, <<MaxSpacing, 1>>}}

InitBatch ==
    /\ pc = "loop"
    /\ analyzer \in {"lung", "vessel"}
    /\ \E n \in 0..MaxSlices : paths \in [1..n -> Slices]
    /\ idx = 0 /\ rows = <<>> /\ csv_file = NotWritten
    /\ ct_numpy = EmptyArray
    /\ orig = EmptyArray
    /\ NoThreshold /\ NoSelect /\ NoMasks /\ NoAreas /\ NoLoop

\* the for loop takes the next path; process_image loads it
\* (nib.load, get_fdata) with fresh locals
LoadSlice ==
    /\ pc = "loop"
    /\ idx < Len(paths)
    /\ ct_numpy' = paths[idx + 1].ct
    /\ pixdim' = paths[idx + 1].pixdim
    /\ contours' = <<>> /\ lungs_contour' = <<>>
    /\ lung_mask' = EmptyArray /\ vessels_only' = EmptyArray
    /\ lung_area' = 0 /\ vessel_area' = 0 /\ ratio' = NoRatio
    /\ pc' = "segment"
    /\ UNCHANGED <<thresholdVars, min_volume, nifti_file, batchVars,
                   loopVars, orig>>

\* lung.segment_intensity(ct_numpy, -1000, -300)
SegmentIntensity ==
    /\ pc = "segment"
    /\ lower_bound' = -1000 /\ upper_bound' = -300
    /\ binarized_image' = clip_and_binarize_ct(ct_numpy, -1000, -300)
    /\ contours' = paths[idx + 1].found
    /\ pc' = "select"
    /\ UNCHANGED <<ct_numpy, min_volume, lungs_contour, maskVars, areaVars,
                   batchVars, loopVars, orig>>

\* lung.find_lung_contours(contours): a QhullError leaves process_image
\* and analyze_images, neither of which catches anything
SelectLungs ==
    /\ pc = "select"
    /\ min_volume' = 2000
    /\ IF FindRaises(contours)
       THEN pc' = "aborted" /\ UNCHANGED lungs_contour
       ELSE /\ lungs_contour' = find_lung_contours(contours, 2000)
            /\ pc' = "mask"
    /\ UNCHANGED <<ct_numpy, thresholdVars, contours, maskVars, areaVars,
                   batchVars, loopVars, orig>>

\* lung.create_mask_from_polygon(ct_numpy, lungs)
BuildLungMask ==
    /\ pc = "mask"
    /\ lung_mask' = create_mask_from_polygon(ct_numpy, lungs_contour)
    /\ pc' = IF analyzer = "lung" THEN "lung_save" ELSE "lung_area"
    /\ UNCHANGED <<ct_numpy, thresholdVars, selectVars, vessels_only,
                   nifti_file, areaVars, batchVars, loopVars, orig>>

\* segment_lungs.py line 31
LungSave ==
    /\ pc = "lung_save"
    /\ lung_mask' = Rescale(lung_mask)
    /\ nifti_file' = lung_mask'
    /\ pc' = "lung_measure"
    /\ UNCHANGED <<ct_numpy, thresholdVars, selectVars, vessels_only,
                   areaVars, batchVars, loopVars, orig>>

\* segment_lungs.py lines 33-34 and 44-45
LungMeasure ==
    /\ pc = "lung_measure"
    /\ lung_area' = compute_lung_area(lung_mask, pixdim)
    /\ rows' = Append(rows, [name |-> idx + 1, lung_area |-> lung_area'])
    /\ idx' = idx + 1
    /\ pc' = "loop"
    /\ UNCHANGED <<ct_numpy, thresholdVars, selectVars, maskVars, pixdim,
                   vessel_area, ratio, paths, csv_file, analyzer, loopVars,
                   orig>>

\* segment_vessels.py line 32
VesselLungArea ==
    /\ pc = "lung_area"
    /\ lung_area' = compute_lung_area(lung_mask, pixdim)
    /\ pc' = "vessel_mask"
    /\ UNCHANGED <<ct_numpy, thresholdVars, selectVars, maskVars, pixdim,
                   vessel_area, ratio, batchVars, loopVars, orig>>

\* segment_vessels.py line 34
VesselMask ==
    /\ pc = "vessel_mask"
    /\ vessels_only' =
           create_vessel_mask(lung_mask, lungs_contour, ct_numpy, TRUE)
    /\ pc' = "vessel_save"
    /\ UNCHANGED <<ct_numpy, thresholdVars, selectVars, lung_mask,
                   nifti_file, areaVars, batchVars, loopVars, orig>>

\* segment_vessels.py line 42
VesselSave ==
    /\ pc = "vessel_save"
    /\ vessels_only' = Rescale(vessels_only)
    /\ nifti_file' = vessels_only'
    /\ pc' = "vessel_measure"
    /\ UNCHANGED <<ct_numpy, thresholdVars, selectVars, lung_mask, areaVars,
                   batchVars, loopVars, orig>>

\* segment_vessels.py lines 44-48 and 58-59
VesselMeasure ==
    /\ pc = "vessel_measure"
    /\ vessel_area' = compute_lung_area(vessels_only, pixdim)
    /\ ratio' = VesselRatio(vessel_area', lung_area)
    /\ rows' = Append(rows, [name |-> idx + 1, lung_area |-> lung_area,
                             vessel_area |-> vessel_area', ratio |-> ratio'])
    /\ idx' = idx + 1
    /\ pc' = "loop"
    /\ UNCHANGED <<ct_numpy, thresholdVars, selectVars, maskVars, pixdim,
                   lung_area, paths, csv_file, analyzer, loopVars, orig>>

\* the loop is over: writer.writerows
WriteCsv ==
    /\ pc = "loop"
    /\ idx = Len(paths)
    /\ csv_file' = [written |-> TRUE, rows |-> rows]
    /\ pc' = "finished"
    /\ UNCHANGED <<ct_numpy, thresholdVars, selectVars, maskVars, areaVars,
                   paths, idx, rows, analyzer, loopVars, orig>>

NextBatch ==
    \/ LoadSlice \/ SegmentIntensity \/ SelectLungs \/ BuildLungMask
    \/ LungSave \/ LungMeasure
    \/ VesselLungArea \/ VesselMask \/ VesselSave \/ VesselMeasure
    \/ WriteCsv
SpecBatch == InitBatch /\ [][NextBatch]_vars

\* C3: a vessel row of a slice whose lung area is 0 carries an explicit
\* undefined marker as its ratio, never a number, an infinity or a NaN.
C3_AsStated ==
    analyzer = "vessel" =>
        \A i \in 1..Len(rows) :
            rows[i].lung_area = 0 => rows[i].ratio.kind = "undefined"

\* C4: a failing slice does not abort the batch: whenever the batch has
\* stopped, the sink holds exactly one row per input slice, in input order.
C4_AsStated ==
    pc \in {"finished", "aborted"} =>
        /\ csv_file.written
        /\ Len(csv_file.rows) = Len(paths)
        /\ \A i \in 1..Len(paths) : csv_file.rows[i].name = i

\* C10: once the mask of a slice has been merged, the lung mask and the
\* vessel mask the pipeline holds contain only 0 and 1, also after a save.
C10_AsStated ==
    pc \in {"lung_save", "lung_measure", "lung_area", "vessel_mask",
            "vessel_save", "vessel_measure"} =>
        IsBinary(lung_mask) /\ IsBinary(vessels_only)

====
